---- MODULE Spec2Model ----
(***************************************************************************)
(* DNS over DTLS client (sys/net/application_layer/sock_dodtls).           *)
(*                                                                         *)
(* The module's static state, the three public operations                  *)
(* (sock_dodtls_query, sock_dodtls_get_server, sock_dodtls_set_server) and *)
(* the collaborators they call, run by a fixed set of threads.  Every      *)
(* thread has a frame th[t] holding its position (pc), the locals of the   *)
(* function it is in and the bookkeeping the properties refer to.          *)
(*                                                                         *)
(* Time: the code only ever uses differences of _now_ms() readings taken   *)
(* inside one call, so a frame stores the milliseconds elapsed since the   *)
(* call's `start` reading instead of absolute clock values.                *)
(***************************************************************************)
EXTENDS Integers, Sequences, FiniteSets, TLC

(* ---------------- bounds of the model ---------------- *)
NumThreads == 2
MaxCalls == 4
MaxBindRetries == 1

Threads == 1..NumThreads

(* ---------------- program constants ---------------- *)
CONFIG_SOCK_DODTLS_RETRIES == 2
CONFIG_SOCK_DODTLS_TIMEOUT_MS == 1000
US_PER_MS == 1000
SOCK_DODTLS_MAX_NAME_LEN == 112
DNS_HDR_LEN == 12
SOCK_DODTLS_MIN_REPLY_LEN == DNS_HDR_LEN + 7
SOCK_DODTLS_SESSION_TIMEOUT_MS == 15 * 1000
SOCK_DODTLS_SESSION_RECV_TIMEOUT_MS == 1 * 1000
IANA_SYSTEM_PORTRANGE_MAX == 1023
IANA_DYNAMIC_PORTRANGE_MIN == 49152
IANA_DYNAMIC_PORTRANGE_MAX == 65535
UINT16 == 65536

ENOMEM == 12
EXDEV == 18
EINVAL == 22
ENOSPC == 28
EBADMSG == 77
ECONNREFUSED == 111
EADDRINUSE == 112
ETIMEDOUT == 116
ENOTCONN == 128
SOCK_DTLS_HANDSHAKE == EXDEV

CREDMAN_OK == 0
CREDMAN_EXIST == 0 - 1
CREDMAN_NO_SPACE == 0 - 2
CREDMAN_ERROR == 0 - 6
CREDMAN_TYPE_EMPTY == "EMPTY"
CREDMAN_TAG_EMPTY == 0

(* ---------------- inputs ---------------- *)
\* domain names the callers pass; DomainLen is their strlen()
ShortName == "example.org"
LongName == "too.long"
DomainNames == {ShortName, LongName}
DomainLen(n) == IF n = LongName THEN SOCK_DODTLS_MAX_NAME_LEN + 1 ELSE 11

Credentials == {[tag |-> 1, type |-> "PSK"]}
NoCreds == [tag |-> CREDMAN_TAG_EMPTY, type |-> CREDMAN_TYPE_EMPTY]

Addrs == {"X", "Y"}
NoAddr == "none"
AddrLen == 16
TTLs == {300}
NoEntry == [addr |-> NoAddr, ttl |-> 0]

\* a uint32_t is kept as its two 16-bit halves, value = hi * 2^16 + lo
U32(h, l) == [hi |-> h, lo |-> l]
\* an int (possibly negative) converted to uint32_t
ToU32(n) == U32((n \div UINT16) % UINT16, n % UINT16)
U32Less(a, b) == a.hi < b.hi \/ (a.hi = b.hi /\ a.lo < b.lo)
\* a - b modulo 2^32
U32Sub(a, b) ==
    IF a.lo >= b.lo THEN U32((a.hi - b.hi) % UINT16, a.lo - b.lo)
    ELSE U32((a.hi - b.hi - 1) % UINT16, a.lo - b.lo + UINT16)
\* a % m for a modulus above 2^31, where the quotient is 0 or 1
U32ModLarge(a, m) == IF U32Less(a, m) THEN a ELSE U32Sub(a, m)

\* values random_uint32() returns: 0, 0xffff, 0xffffffff
RandomValues == {U32(0, 0), U32(0, UINT16 - 1), U32(UINT16 - 1, UINT16 - 1)}
\* results of sock_dtls_send(): an error or the number of bytes sent
SendResults == {0 - ETIMEDOUT, 4}
\* time (ms) a sock_dtls_send() takes
SendDurations == {400, CONFIG_SOCK_DODTLS_TIMEOUT_MS + 1}
\* results of sock_dtls_recv() in the query loop: error, empty datagram,
\* reply lengths around the minimum
RecvResults == {0 - ETIMEDOUT, 0, SOCK_DODTLS_MIN_REPLY_LEN - 1,
                SOCK_DODTLS_MIN_REPLY_LEN, SOCK_DODTLS_MIN_REPLY_LEN + 1}
\* time (ms) one sock_dtls_session_init() takes
InitDurations == {3000}

VARIABLES
    _dns_buf, _udp_sock, _dtls_sock, _server_session, _server_mutex,
    _cred_type, _cred_tag, _id,
    credman, dns_cache, udp_leaked, dtls_leaked,
    th, returned,
    calls, lastAlloc, numAllocs, in_flight

statics == <<_dns_buf, _udp_sock, _dtls_sock, _server_session, _server_mutex,
             _cred_type, _cred_tag, _id>>
collab == <<credman, dns_cache, udp_leaked, dtls_leaked>>
hist == <<calls, lastAlloc, numAllocs, in_flight>>
vars == <<statics, collab, th, returned, hist>>

(* ---------------- the scratch buffer ---------------- *)
\* _dns_buf[CONFIG_DNS_MSG_LEN], four bytes of it: id (2), flags, payload
ZeroBuf == <<0, 0, 0, 0>>
IsZero(buf) == \A k \in 1..Len(buf) : buf[k] = 0
\* dns_msg_compose_query(): header with the id and RD flag, then the name
\* (its length byte)
dns_msg_compose_query(name, qid) ==
    <<qid \div 256, qid % 256, 1, DomainLen(name)>>
\* a datagram of n bytes received into the buffer
ReplyBytes(qid, n) == <<qid \div 256, qid % 256, 129, n>>
BufId(buf) == buf[1] * 256 + buf[2]

(* ---------------- thread frames ---------------- *)
\* pc and the locals of the function the thread is in (a local is kept only
\* while the code can still read it), then the counters of the current call:
\* sends, receives, cache insertions, whether every receive timed out,
\* whether the first reply decoded, bind retries, handshake iterations and
\* failed handshake receives, cache lookups, the duration of the last send
\* and the time slept after it, whether the last reply was handed to
\* dns_msg_parse_reply(), whether credman_add() answered CREDMAN_EXIST
Frame ==
    [pc |-> "idle", domain_name |-> "", creds |-> NoCreds, res |-> 0, id |-> 0,
     i |-> 0, timeout |-> 0, ttl |-> 0, addr_out |-> NoAddr, local_port |-> 0,
     elapsed |-> 0, try_start |-> 0,
     nsend |-> 0, nrecv |-> 0, nadd |-> 0, allTmo |-> TRUE, firstOk |-> FALSE,
     binds |-> 0, hs_attempts |-> 0, hs_fails |-> 0,
     ncache |-> 0, send_duration |-> 0, slept |-> 0, decoded |-> FALSE,
     exist |-> FALSE]

\* `returned` describes the return that the last step performed, if it
\* performed one: who returned from what with which value and output
\* address, and the frame the call had when it returned
NoReturn ==
    [thread |-> 0, op |-> "none", val |-> 0, addr |-> NoAddr, frame |-> Frame]

\* the function returns val from frame f: the frame is dropped
ReturnFrom(t, op, val, a, f) ==
    /\ th' = [th EXCEPT ![t] = Frame]
    /\ returned' = [thread |-> t, op |-> op, val |-> val, addr |-> a,
                    frame |-> f]

Return(t, op, val, a) == ReturnFrom(t, op, val, a, th[t])

\* the thread goes on inside its function with frame f
Step(t, f) ==
    /\ th' = [th EXCEPT ![t] = f]
    /\ returned' = NoReturn

Init ==
    /\ _dns_buf = ZeroBuf
    /\ _udp_sock = "closed"
    /\ _dtls_sock = "closed"
    /\ _server_session = "none"
    /\ _server_mutex = 0
    /\ _cred_type = CREDMAN_TYPE_EMPTY
    /\ _cred_tag = CREDMAN_TAG_EMPTY
    /\ _id = 0
    /\ credman = {}
    /\ dns_cache = [n \in DomainNames |-> NoEntry]
    /\ udp_leaked = 0
    /\ dtls_leaked = 0
    /\ th = [t \in Threads |-> Frame]
    /\ returned = NoReturn
    /\ calls = 0
    /\ lastAlloc = 0 - 1
    /\ numAllocs = 0
    /\ in_flight = 0

(* ---------------- helpers of the module ---------------- *)
_server_set == _cred_type # CREDMAN_TYPE_EMPTY

\* variant: mutex_lock() that does not wait
MutexUnlocked_NoWait == TRUE

\* mutex_lock() returns only when the mutex is unlocked
MutexUnlocked == _server_mutex = 0

\* variant: a counter wider than 16 bits
NextId_NoWrap(x) == x + 1

\* uint16_t post-increment of _id
NextId(x) == (x + 1) % UINT16

\* variant: i <= CONFIG_SOCK_DODTLS_RETRIES
LoopContinues_OffByOne(iter) == iter <= CONFIG_SOCK_DODTLS_RETRIES

\* for (int i = 0; i < CONFIG_SOCK_DODTLS_RETRIES; i++)
LoopContinues(iter) == iter < CONFIG_SOCK_DODTLS_RETRIES

\* variant: the goto out is missing
GotoOut_Never(r) == FALSE

\* variant: the goto out follows the if instead of being inside it
GotoOut_AnyResult(r) == TRUE

\* a positive dns_msg_parse_reply() result leaves the loop (goto out)
GotoOut(r) == r > 0

\* variant: the length is compared with the buffer size
NameTooLong_BufferSize(name) == DomainLen(name) > 128

\* if (strlen(domain_name) > SOCK_DODTLS_MAX_NAME_LEN)
NameTooLong(name) == DomainLen(name) > SOCK_DODTLS_MAX_NAME_LEN

\* variant: the result of the lookup is ignored
CacheHit_Ignored(r) == FALSE

\* res = dns_cache_query(); if (res)
CacheHit(r) == r # 0

\* dns_cache_query(): the address length on a hit, 0 on a miss
dns_cache_query(name) ==
    IF dns_cache[name] # NoEntry THEN AddrLen ELSE 0

(* ---------------- sock_dodtls_query ---------------- *)
\* entry: strlen check, cache lookup
QueryEnter(t) ==
    /\ th[t].pc = "idle"
    /\ calls < MaxCalls
    /\ calls' = calls + 1
    /\ \E name \in DomainNames :
         IF NameTooLong(name)
         THEN ReturnFrom(t, "query", 0 - ENOSPC, NoAddr,
                         [Frame EXCEPT !.domain_name = name])
         ELSE IF CacheHit(dns_cache_query(name))
         THEN ReturnFrom(t, "query", dns_cache_query(name),
                         dns_cache[name].addr,
                         [Frame EXCEPT !.domain_name = name, !.ncache = 1])
         ELSE Step(t, [Frame EXCEPT !.pc = "q_server_set",
                                    !.domain_name = name, !.ncache = 1])
    /\ UNCHANGED <<statics, collab, lastAlloc, numAllocs, in_flight>>

\* if (!_server_set()) return -ECONNREFUSED;   (read without the mutex)
QueryServerSet(t) ==
    /\ th[t].pc = "q_server_set"
    /\ IF ~_server_set
       THEN Return(t, "query", 0 - ECONNREFUSED, NoAddr)
       ELSE Step(t, [th[t] EXCEPT !.pc = "q_lock"])
    /\ UNCHANGED <<statics, collab, hist>>

\* mutex_lock(&_server_mutex); id = _id++;
QueryLock(t) ==
    /\ th[t].pc = "q_lock"
    /\ MutexUnlocked
    /\ _server_mutex' = t
    /\ _id' = NextId(_id)
    /\ Step(t, [th[t] EXCEPT
                  !.id = _id,
                  !.pc = IF LoopContinues(0) THEN "q_send" ELSE "q_out"])
    /\ lastAlloc' = _id
    /\ numAllocs' = numAllocs + 1
    /\ UNCHANGED <<_dns_buf, _udp_sock, _dtls_sock, _server_session,
                   _cred_type, _cred_tag, collab, calls, in_flight>>

\* res > (int)SOCK_DODTLS_MIN_REPLY_LEN
LongEnough(r) == r > SOCK_DODTLS_MIN_REPLY_LEN

\* ztimer_sleep(ZTIMER_MSEC, delay): the milliseconds the caller sleeps
_sleep_ms(delay) == delay

\* compose, send, send_duration check, timeout -= send_duration, sleep.
\* The send result is only read by the sleep decision of this step.
QuerySend(t) ==
    /\ th[t].pc = "q_send"
    /\ _dns_buf' = dns_msg_compose_query(th[t].domain_name, th[t].id)
    /\ in_flight' = t
    /\ \E sres \in SendResults, send_duration \in SendDurations :
         IF send_duration > CONFIG_SOCK_DODTLS_TIMEOUT_MS
         THEN Return(t, "query", 0 - ETIMEDOUT, NoAddr)
         ELSE LET timeout == CONFIG_SOCK_DODTLS_TIMEOUT_MS * US_PER_MS
                             - send_duration
              IN Step(t, [th[t] EXCEPT
                   !.timeout = timeout,
                   !.send_duration = send_duration,
                   !.slept = IF sres <= 0 THEN _sleep_ms(timeout) ELSE 0,
                   !.decoded = FALSE,
                   !.nsend = @ + 1,
                   !.pc = "q_recv"])
    /\ UNCHANGED <<_udp_sock, _dtls_sock, _server_session, _server_mutex,
                   _cred_type, _cred_tag, _id, collab, calls, lastAlloc,
                   numAllocs>>

\* sock_dtls_recv(), length check, dns_msg_parse_reply(), dns_cache_add()
QueryRecv(t) ==
    /\ th[t].pc = "q_recv"
    /\ \E r \in RecvResults :
         \E parsed \in {0 - EBADMSG, AddrLen}, a \in Addrs, newttl \in TTLs :
           LET decoded == r > 0 /\ LongEnough(r)
               \* the value of res at the end of the iteration
               r2 == IF r <= 0 THEN r
                     ELSE IF decoded THEN parsed
                     ELSE 0 - EBADMSG
               ok == decoded /\ GotoOut(r2)
           IN
           \* the choices that are not looked at are fixed
           /\ (~decoded => parsed = 0 - EBADMSG)
           /\ (~(decoded /\ parsed > 0) => a = "X" /\ newttl = 300)
           /\ _dns_buf' = IF r > 0 THEN ReplyBytes(th[t].id, r) ELSE _dns_buf
           /\ dns_cache' = IF decoded /\ parsed > 0
                THEN [dns_cache EXCEPT ![th[t].domain_name] =
                          [addr |-> a, ttl |-> newttl]]
                ELSE dns_cache
           /\ Step(t, [th[t] EXCEPT
                !.res = r2,
                !.timeout = 0,
                !.send_duration = 0,
                !.slept = 0,
                !.decoded = decoded,
                !.nrecv = @ + 1,
                !.ttl = IF decoded /\ parsed > 0 THEN newttl ELSE @,
                !.addr_out = IF decoded /\ parsed > 0 THEN a ELSE @,
                !.nadd = IF decoded /\ parsed > 0 THEN @ + 1 ELSE @,
                !.allTmo = @ /\ r = 0 - ETIMEDOUT,
                !.firstOk = @ \/ (decoded /\ parsed > 0 /\ th[t].nrecv = 0),
                !.i = IF ok THEN @ ELSE @ + 1,
                !.pc = IF ok THEN "q_out"
                       ELSE IF LoopContinues(th[t].i + 1) THEN "q_send"
                       ELSE "q_out"])
    /\ UNCHANGED <<_udp_sock, _dtls_sock, _server_session, _server_mutex,
                   _cred_type, _cred_tag, _id, credman, udp_leaked,
                   dtls_leaked, hist>>

\* out: memset(_dns_buf, 0, ...); mutex_unlock(); return res;
QueryOut(t) ==
    /\ th[t].pc = "q_out"
    /\ _dns_buf' = ZeroBuf
    /\ _server_mutex' = 0
    /\ in_flight' = 0
    /\ Return(t, "query", th[t].res, th[t].addr_out)
    /\ UNCHANGED <<_udp_sock, _dtls_sock, _server_session, _cred_type,
                   _cred_tag, _id, collab, calls, lastAlloc, numAllocs>>

(* ---------------- sock_dodtls_get_server ---------------- *)
GetServerCall(t) ==
    /\ th[t].pc = "idle"
    /\ calls < MaxCalls
    /\ calls' = calls + 1
    /\ Step(t, [Frame EXCEPT !.pc = "g_lock"])
    /\ UNCHANGED <<statics, collab, lastAlloc, numAllocs, in_flight>>

\* lock; res = _server_set() ? 0 : -ENOTCONN; unlock; return res
GetServer(t) ==
    /\ th[t].pc = "g_lock"
    /\ MutexUnlocked
    /\ Return(t, "get_server", IF _server_set THEN 0 ELSE 0 - ENOTCONN, NoAddr)
    /\ UNCHANGED <<statics, collab, hist>>

(* ---------------- _close_session ---------------- *)
\* session_destroy, sock_dtls_close, credman_delete, sock_udp_close
CloseSession(tag, type) ==
    /\ _server_session' = "none"
    /\ _dtls_sock' = "closed"
    /\ credman' = credman \ {[tag |-> tag, type |-> type]}
    /\ _udp_sock' = "closed"

(* ---------------- _disconnect_server ---------------- *)
\* sock_dodtls_set_server(NULL, creds)
DisconnectCall(t) ==
    /\ th[t].pc = "idle"
    /\ calls < MaxCalls
    /\ calls' = calls + 1
    /\ Step(t, [Frame EXCEPT !.pc = "d_lock"])
    /\ UNCHANGED <<statics, collab, lastAlloc, numAllocs, in_flight>>

DisconnectServer(t) ==
    /\ th[t].pc = "d_lock"
    /\ MutexUnlocked
    /\ IF ~_server_set
       THEN UNCHANGED <<_server_session, _dtls_sock, credman, _udp_sock,
                        _cred_tag, _cred_type>>
       ELSE /\ CloseSession(_cred_tag, _cred_type)
            /\ _cred_tag' = CREDMAN_TAG_EMPTY
            /\ _cred_type' = CREDMAN_TYPE_EMPTY
    /\ Return(t, "disconnect", 0, NoAddr)
    /\ UNCHANGED <<_dns_buf, _server_mutex, _id, dns_cache, udp_leaked,
                   dtls_leaked, hist>>

(* ---------------- _connect_server ---------------- *)
\* local.port = IANA_DYNAMIC_PORTRANGE_MIN + (random_uint32() %
\*     (IANA_SYSTEM_PORTRANGE_MAX - IANA_DYNAMIC_PORTRANGE_MIN)),
\* unsigned 32-bit arithmetic stored into a uint16_t
LocalPort(r) ==
    LET range == ToU32(IANA_SYSTEM_PORTRANGE_MAX - IANA_DYNAMIC_PORTRANGE_MIN)
    IN (IANA_DYNAMIC_PORTRANGE_MIN + U32ModLarge(r, range).lo) % UINT16

\* while ((try_start = _now_ms()) - start) < SOCK_DODTLS_SESSION_TIMEOUT_MS)
HandshakeLoopContinues(el) == el < SOCK_DODTLS_SESSION_TIMEOUT_MS

\* variant: timeout += SOCK_DODTLS_SESSION_RECV_TIMEOUT_MS
Backoff_Linear(tmo) == tmo + SOCK_DODTLS_SESSION_RECV_TIMEOUT_MS

\* timeout *= 2U   (stays far below 2^32 within the session deadline)
Backoff(tmo) == tmo * 2

\* the error _connect_server returns for a credman_add() failure
CredmanError(r) == IF r = CREDMAN_NO_SPACE THEN 0 - ENOSPC ELSE 0 - EINVAL

\* sock_dodtls_set_server(server, creds), server != NULL
ConnectCall(t) ==
    /\ th[t].pc = "idle"
    /\ calls < MaxCalls
    /\ calls' = calls + 1
    /\ \E c \in Credentials :
         Step(t, [Frame EXCEPT !.pc = "c_lock", !.creds = c])
    /\ UNCHANGED <<statics, collab, lastAlloc, numAllocs, in_flight>>

\* res = -EADDRINUSE; timeout = 1 s; mutex_lock()
ConnectLock(t) ==
    /\ th[t].pc = "c_lock"
    /\ MutexUnlocked
    /\ _server_mutex' = t
    /\ Step(t, [th[t] EXCEPT !.res = 0 - EADDRINUSE,
                             !.timeout = SOCK_DODTLS_SESSION_RECV_TIMEOUT_MS,
                             !.pc = "c_bind"])
    /\ UNCHANGED <<_dns_buf, _udp_sock, _dtls_sock, _server_session,
                   _cred_type, _cred_tag, _id, collab, hist>>

\* one iteration of while (res == -EADDRINUSE): sock_udp_create()
ConnectBind(t) ==
    /\ th[t].pc = "c_bind"
    /\ \E r \in RandomValues, cres \in {0, 0 - EADDRINUSE, 0 - ENOMEM} :
         /\ (cres = 0 - EADDRINUSE => th[t].binds < MaxBindRetries)
         /\ IF cres = 0
            THEN /\ _udp_sock' = "open"
                 /\ udp_leaked' = IF _udp_sock = "open" THEN udp_leaked + 1
                                  ELSE udp_leaked
            ELSE UNCHANGED <<_udp_sock, udp_leaked>>
         /\ Step(t, [th[t] EXCEPT
              !.local_port = LocalPort(r),
              !.res = cres,
              !.binds = IF cres = 0 - EADDRINUSE THEN @ + 1 ELSE @,
              !.pc = IF cres = 0 THEN "c_cred"
                     ELSE IF cres = 0 - EADDRINUSE THEN "c_bind"
                     ELSE "c_exit"])
    /\ UNCHANGED <<_dns_buf, _dtls_sock, _server_session, _server_mutex,
                   _cred_type, _cred_tag, _id, credman, dns_cache,
                   dtls_leaked, hist>>

\* variant: every negative credman_add() result is a failure
CredmanFailed_AnyNegative(r) == r < 0

\* if (res < 0 && res != CREDMAN_EXIST)
CredmanFailed(r) == r < 0 /\ r # CREDMAN_EXIST

\* credman_add(); on failure _close_session() and goto exit.
\* `local` is not read after sock_udp_create().
ConnectCred(t) ==
    /\ th[t].pc = "c_cred"
    /\ \E r \in {CREDMAN_OK, CREDMAN_EXIST, CREDMAN_NO_SPACE, CREDMAN_ERROR} :
         /\ (r = CREDMAN_EXIST <=> th[t].creds \in credman)
         /\ IF CredmanFailed(r)
            THEN /\ CloseSession(th[t].creds.tag, th[t].creds.type)
                 /\ Step(t, [th[t] EXCEPT !.res = CredmanError(r),
                                          !.local_port = 0,
                                          !.pc = "c_exit"])
            ELSE /\ credman' = credman \cup {th[t].creds}
                 /\ Step(t, [th[t] EXCEPT !.res = r, !.local_port = 0,
                                          !.exist = (r = CREDMAN_EXIST),
                                          !.pc = "c_dtls"])
                 /\ UNCHANGED <<_server_session, _dtls_sock, _udp_sock>>
    /\ UNCHANGED <<_dns_buf, _server_mutex, _cred_type, _cred_tag, _id,
                   dns_cache, udp_leaked, dtls_leaked, hist>>

\* sock_dtls_create(); on failure _close_session() and goto exit;
\* on success start = _now_ms()
ConnectDtls(t) ==
    /\ th[t].pc = "c_dtls"
    /\ \E r \in {0, 0 - 1} :
         IF r < 0
         THEN /\ CloseSession(th[t].creds.tag, th[t].creds.type)
              /\ Step(t, [th[t] EXCEPT !.res = r, !.pc = "c_exit"])
              /\ UNCHANGED dtls_leaked
         ELSE /\ _dtls_sock' = "open"
              /\ dtls_leaked' = IF _dtls_sock = "open" THEN dtls_leaked + 1
                                ELSE dtls_leaked
              /\ Step(t, [th[t] EXCEPT !.res = r, !.elapsed = 0,
                                       !.try_start = 0, !.pc = "c_hs"])
              /\ UNCHANGED <<_server_session, credman, _udp_sock>>
    /\ UNCHANGED <<_dns_buf, _server_mutex, _cred_type, _cred_tag, _id,
                   dns_cache, udp_leaked, hist>>

\* the loop condition, memset of the session, sock_dtls_session_init()
ConnectInit(t) ==
    /\ th[t].pc = "c_hs"
    /\ IF ~HandshakeLoopContinues(th[t].elapsed)
       THEN /\ Step(t, [th[t] EXCEPT !.try_start = th[t].elapsed,
                                     !.pc = "c_hs_done"])
            /\ UNCHANGED _server_session
       ELSE \E r \in {0, 0 - ENOMEM}, d \in InitDurations :
              IF r >= 0
              THEN /\ _server_session' = "init"
                   /\ Step(t, [th[t] EXCEPT !.try_start = th[t].elapsed,
                                            !.elapsed = @ + d,
                                            !.res = r,
                                            !.hs_attempts = @ + 1,
                                            !.pc = "c_hs_recv"])
              ELSE \* sock_dtls_session_destroy(); timeout is not changed
                   /\ _server_session' = "none"
                   /\ Step(t, [th[t] EXCEPT !.try_start = th[t].elapsed,
                                            !.elapsed = @ + d,
                                            !.res = r,
                                            !.hs_attempts = @ + 1,
                                            !.pc = "c_hs"])
    /\ UNCHANGED <<_dns_buf, _udp_sock, _dtls_sock, _server_mutex,
                   _cred_type, _cred_tag, _id, collab, hist>>

\* sock_dtls_recv() of the handshake; on failure session_destroy, sleep for
\* the rest of the timeout, timeout *= 2
ConnectRecv(t) ==
    /\ th[t].pc = "c_hs_recv"
    /\ \E r \in {0 - SOCK_DTLS_HANDSHAKE, 0 - ETIMEDOUT,
                 SOCK_DODTLS_MIN_REPLY_LEN + 1},
          d \in {0, th[t].timeout} :
         /\ (r = 0 - ETIMEDOUT => d = th[t].timeout)
         /\ _dns_buf' = IF r > 0 THEN ReplyBytes(0, r) ELSE _dns_buf
         /\ IF r = 0 - SOCK_DTLS_HANDSHAKE
            THEN /\ _server_session' = "established"
                 /\ Step(t, [th[t] EXCEPT !.res = r,
                                          !.elapsed = @ + d,
                                          !.pc = "c_hs_done"])
            ELSE LET try_duration == th[t].elapsed + d - th[t].try_start
                 IN /\ _server_session' = "none"
                    /\ Step(t, [th[t] EXCEPT
                         !.res = r,
                         !.elapsed =
                            IF try_duration < th[t].timeout
                            THEN th[t].try_start + th[t].timeout
                            ELSE @ + d,
                         !.timeout = Backoff(@),
                         !.hs_fails = @ + 1,
                         !.pc = "c_hs"])
    /\ UNCHANGED <<_udp_sock, _dtls_sock, _server_mutex, _cred_type,
                   _cred_tag, _id, collab, hist>>

\* after the loop: timeout teardown, or record the session and reseed _id.
\* start, try_start and timeout are not read after the loop.
ConnectDone(t) ==
    /\ th[t].pc = "c_hs_done"
    /\ IF th[t].res # 0 - SOCK_DTLS_HANDSHAKE
       THEN /\ CloseSession(th[t].creds.tag, th[t].creds.type)
            /\ Step(t, [th[t] EXCEPT !.res = 0 - ETIMEDOUT, !.elapsed = 0,
                                     !.try_start = 0, !.timeout = 0,
                                     !.pc = "c_exit"])
            /\ UNCHANGED <<_cred_type, _cred_tag, _id, lastAlloc, numAllocs>>
       ELSE /\ _cred_type' = th[t].creds.type
            /\ _cred_tag' = th[t].creds.tag
            /\ \E r \in RandomValues : _id' = r.lo
            /\ Step(t, [th[t] EXCEPT !.res = 0, !.elapsed = 0,
                                     !.try_start = 0, !.timeout = 0,
                                     !.pc = "c_exit"])
            /\ lastAlloc' = 0 - 1
            /\ numAllocs' = 0
            /\ UNCHANGED <<_server_session, _dtls_sock, credman, _udp_sock>>
    /\ UNCHANGED <<_dns_buf, _server_mutex, dns_cache, udp_leaked,
                   dtls_leaked, calls, in_flight>>

\* exit: memset(_dns_buf, 0, ...); mutex_unlock(); return (res > 0) ? 0 : res
ConnectExit(t) ==
    /\ th[t].pc = "c_exit"
    /\ _dns_buf' = ZeroBuf
    /\ _server_mutex' = 0
    /\ Return(t, "connect", IF th[t].res > 0 THEN 0 ELSE th[t].res, NoAddr)
    /\ UNCHANGED <<_udp_sock, _dtls_sock, _server_session, _cred_type,
                   _cred_tag, _id, collab, hist>>

(* ---------------- the resolution cache ---------------- *)
\* an entry's TTL runs out
CacheExpire ==
    /\ \E n \in DomainNames :
         /\ dns_cache[n] # NoEntry
         /\ dns_cache' = [dns_cache EXCEPT ![n] = NoEntry]
    /\ returned' = NoReturn
    /\ UNCHANGED <<statics, credman, udp_leaked, dtls_leaked, th, hist>>

\* a caller enters one of the public operations
Call(t) ==
    \/ QueryEnter(t)
    \/ GetServerCall(t)
    \/ DisconnectCall(t)
    \/ ConnectCall(t)

\* a thread that is inside an operation takes its next step
Running(t) ==
    \/ QueryServerSet(t)
    \/ QueryLock(t)
    \/ QuerySend(t)
    \/ QueryRecv(t)
    \/ QueryOut(t)
    \/ GetServer(t)
    \/ DisconnectServer(t)
    \/ ConnectLock(t)
    \/ ConnectBind(t)
    \/ ConnectCred(t)
    \/ ConnectDtls(t)
    \/ ConnectInit(t)
    \/ ConnectRecv(t)
    \/ ConnectDone(t)
    \/ ConnectExit(t)

Next ==
    \/ \E t \in Threads : Call(t)
    \/ \E t \in Threads : Running(t)
    \/ CacheExpire

Spec == Init /\ [][Next]_vars

\* the scheduler runs every thread that can run: a thread inside an operation
\* whose next step stays possible eventually takes it
FairSpec == Spec /\ \A t \in Threads : WF_vars(Running(t))

TypeOK ==
    /\ _id \in 0..(UINT16 - 1)
    /\ _server_mutex \in {0} \cup Threads
    /\ \A t \in Threads : th[t].local_port \in 0..(UINT16 - 1)

(* ======================= properties ======================= *)
QueryBody == {"q_send", "q_recv", "q_out"}
ConnectBody == {"c_bind", "c_cred", "c_dtls", "c_hs", "c_hs_recv",
                "c_hs_done", "c_exit"}
OpenUdp == udp_leaked + (IF _udp_sock = "open" THEN 1 ELSE 0)
OpenDtls == dtls_leaked + (IF _dtls_sock = "open" THEN 1 ELSE 0)

\* C1: whenever a sock_dodtls_query call that got past the cache check and
\* the session check returns, every byte of _dns_buf is zero
C1_BufferZeroOnReturn ==
    (returned.op = "query" /\ returned.frame.pc \in QueryBody)
        => IsZero(_dns_buf)

\* C2: every set_server(NULL) call eventually returns, and returns 0
C2_DisconnectReturns ==
    \A t \in Threads :
        (th[t].pc = "d_lock") ~>
            (returned.thread = t /\ returned.op = "disconnect"
             /\ returned.val = 0)

\* C3: after a connect call returned an error no session is observable and
\* the socket, DTLS sock, session and credential of the call are gone;
\* _server_set with the transport torn down is never reachable
C3_FailedConnectLeavesNoSession ==
    /\ (returned.op = "connect" /\ returned.val < 0)
          => /\ ~_server_set
             /\ _udp_sock = "closed"
             /\ _dtls_sock = "closed"
             /\ _server_session = "none"
             /\ returned.frame.creds \notin credman
    /\ ~(_server_set /\ (_udp_sock = "closed" \/ _dtls_sock = "closed"))

\* C4: while no connect or disconnect is in progress, the open sockets and
\* DTLS socks are one each if a credential type is recorded and none
\* otherwise, and the registered credentials are exactly the recorded one
C4_OneSessionIffCredRecorded ==
    (\A t \in Threads : th[t].pc \notin ConnectBody)
        => /\ OpenUdp = (IF _server_set THEN 1 ELSE 0)
           /\ OpenDtls = (IF _server_set THEN 1 ELSE 0)
           /\ credman = (IF _server_set
                         THEN {[tag |-> _cred_tag, type |-> _cred_type]}
                         ELSE {})

\* C5: between the first encode of one sock_dodtls_query call and that
\* call's zeroing of _dns_buf (in_flight names the call), no other call
\* takes a compose/send or receive/decode step
C5_NoInterleaving ==
    [][\A t \in Threads :
         (th[t].pc \in {"q_send", "q_recv"} /\ th'[t] # th[t])
            => in_flight \in {0, t}]_vars

\* a call is between its send and its receive while another caller waits
\* for the mutex
C5_Witness ==
    \E t, u \in Threads :
        /\ t # u
        /\ th[t].pc = "q_recv"
        /\ in_flight = t
        /\ th[u].pc = "q_lock"

\* C6: since the last session establishment every id allocation returns the
\* counter, which is the previously allocated id plus one modulo 65536, and
\* steps the counter by one modulo 65536; a call keeps its id over its
\* retries and composes every query with it
C6_IdsIncrementByOne ==
    [][\A t \in Threads :
         /\ (th[t].pc = "q_lock" /\ th'[t].pc # "q_lock")
               => /\ th'[t].id = _id
                  /\ lastAlloc # 0 - 1 => th'[t].id = (lastAlloc + 1) % 65536
                  /\ _id' = (th'[t].id + 1) % 65536
         /\ (th[t].pc \in {"q_send", "q_recv"} /\ th'[t].pc \in QueryBody)
               => th'[t].id = th[t].id
         /\ (th[t].pc = "q_send" /\ th'[t].pc = "q_recv")
               => BufId(_dns_buf') = th[t].id]_vars

\* the second allocation after a seed of 65535 got id 0
C6_Witness ==
    /\ numAllocs >= 2
    /\ lastAlloc = 0
    /\ \E t \in Threads : th[t].pc \in QueryBody /\ th[t].id = 0

\* C7: a call that leaves the retry loop with every receive timed out has
\* done exactly CONFIG_SOCK_DODTLS_RETRIES sends and as many receives,
\* returns -ETIMEDOUT with _dns_buf zeroed and has inserted nothing into the
\* cache; a send is always followed by its receive before the next send
C7_AllAttemptsTimeOut ==
    /\ (returned.op = "query" /\ returned.frame.pc = "q_out"
        /\ returned.frame.allTmo)
          => /\ returned.frame.nsend = CONFIG_SOCK_DODTLS_RETRIES
             /\ returned.frame.nrecv = CONFIG_SOCK_DODTLS_RETRIES
             /\ returned.val = 0 - ETIMEDOUT
             /\ IsZero(_dns_buf)
             /\ returned.frame.nadd = 0
    /\ \A t \in Threads :
          /\ th[t].pc = "q_send" => th[t].nsend = th[t].nrecv
          /\ th[t].pc = "q_recv" => th[t].nsend = th[t].nrecv + 1

C7_Witness ==
    /\ returned.op = "query"
    /\ returned.frame.pc = "q_out"
    /\ returned.frame.allTmo
    /\ returned.frame.nrecv = CONFIG_SOCK_DODTLS_RETRIES

\* C8: a call that used up all retries without a successful decode returns
\* a negative value and has inserted nothing into the cache
C8_ExhaustedReturnsError ==
    (returned.op = "query" /\ returned.frame.pc = "q_out"
     /\ returned.frame.i = CONFIG_SOCK_DODTLS_RETRIES)
        => /\ returned.val < 0
           /\ returned.frame.nadd = 0

RECURSIVE Pow2(_)
Pow2(k) == IF k <= 0 THEN 1 ELSE 2 * Pow2(k - 1)

\* C9 as stated: the k-th iteration of the handshake loop receives with
\* 1000 * 2^(k-1) ms, and no iteration begins at 15000 ms or later
C9_DoubledAfterEveryAttempt ==
    [][\A t \in Threads :
         /\ th'[t].hs_attempts > th[t].hs_attempts
               => th[t].elapsed < SOCK_DODTLS_SESSION_TIMEOUT_MS
         /\ th'[t].pc = "c_hs_recv"
               => th'[t].timeout = 1000 * Pow2(th'[t].hs_attempts - 1)]_vars

\* C9 amended: the timeout starts at 1000 ms, is doubled after every
\* iteration whose session init succeeded and whose receive did not yield
\* the handshake signal, and is left unchanged by an iteration whose session
\* init failed, so a receive uses 1000 * 2^(failed receives so far) ms; no
\* iteration begins at 15000 ms or later
C9_DoubledAfterFailedReceive ==
    [][\A t \in Threads :
         /\ th'[t].hs_attempts > th[t].hs_attempts
               => /\ th[t].elapsed < SOCK_DODTLS_SESSION_TIMEOUT_MS
                  /\ th'[t].timeout = th[t].timeout
         /\ (th[t].pc = "c_hs_recv" /\ th'[t].pc = "c_hs")
               => th'[t].timeout = 2 * th[t].timeout
         /\ th'[t].pc = "c_hs_recv"
               => th'[t].timeout = 1000 * Pow2(th'[t].hs_fails)]_vars

\* a receive after two failed receives and one failed session init
C9_Witness ==
    \E t \in Threads :
        /\ th[t].pc = "c_hs_recv"
        /\ th[t].hs_fails = 2
        /\ th[t].hs_attempts > 3

\* C10: a call whose first reply decoded returns the address length and the
\* decoded address after one send and one receive, having inserted once;
\* the decode step stores (name, address, ttl) in the cache; a call goes on
\* past the cache lookup only on a miss, and a call that returns from the
\* lookup returns the cached address
C10_FirstReplyThenCache ==
    /\ [](/\ (returned.op = "query" /\ returned.frame.firstOk)
               => /\ returned.val = AddrLen
                  /\ returned.addr = returned.frame.addr_out
                  /\ returned.addr \in Addrs
                  /\ returned.frame.nsend = 1
                  /\ returned.frame.nrecv = 1
                  /\ returned.frame.nadd = 1
          /\ (returned.op = "query" /\ returned.frame.pc = "idle"
              /\ returned.val > 0)
               => /\ dns_cache[returned.frame.domain_name] # NoEntry
                  /\ returned.addr =
                        dns_cache[returned.frame.domain_name].addr)
    /\ [][\A t \in Threads :
            /\ (th'[t].firstOk /\ ~th[t].firstOk)
                  => dns_cache'[th[t].domain_name] =
                        [addr |-> th'[t].addr_out, ttl |-> th'[t].ttl]
            /\ (th[t].pc = "idle" /\ th'[t].pc = "q_server_set")
                  => dns_cache[th'[t].domain_name] = NoEntry]_vars

\* a call returned an address from the cache, which an earlier call's
\* decode had inserted
C10_Witness ==
    /\ returned.op = "query"
    /\ returned.frame.pc = "idle"
    /\ returned.val = AddrLen
    /\ returned.addr \in Addrs

\* C11: a call whose name has a valid cache entry returns from the lookup
\* with the address length and the cached address, and that step leaves the
\* mutex, the id counter, the scratch buffer, the session and the cache as
\* they were, whether or not a credential type is recorded; only a call
\* whose lookup missed goes on to the session check
C11_CacheHitTouchesNothing ==
    [][\A t \in Threads :
         /\ (th[t].pc = "idle" /\ returned'.thread = t
             /\ returned'.op = "query"
             /\ dns_cache[returned'.frame.domain_name] # NoEntry)
               => /\ returned'.val = AddrLen
                  /\ returned'.addr =
                        dns_cache[returned'.frame.domain_name].addr
                  /\ returned'.frame.nsend = 0
                  /\ returned'.frame.nrecv = 0
                  /\ UNCHANGED <<statics, collab, lastAlloc, numAllocs,
                                 in_flight>>
         /\ (th[t].pc = "idle" /\ th'[t].pc = "q_server_set")
               => dns_cache[th'[t].domain_name] = NoEntry]_vars

\* a call returned from the cache while another call holds the mutex with
\* its query in the buffer
C11_Witness ==
    /\ returned.op = "query"
    /\ returned.frame.pc = "idle"
    /\ returned.val = AddrLen
    /\ _server_mutex \notin {0, returned.thread}
    /\ ~IsZero(_dns_buf)

\* C12: a call whose lookup missed and that finds no credential type
\* recorded returns -ECONNREFUSED, having made no transport call and no
\* cache insertion, and leaves the statics (mutex, id counter, buffer,
\* session), the collaborators and the id bookkeeping unchanged; it does
\* not hold the mutex.  The last part fails for a caller whose earlier
\* call left through the return at line 94 with the mutex locked (C16).
C12_NoServerConfigured ==
    [][\A t \in Threads :
         (th[t].pc = "q_server_set" /\ _cred_type = CREDMAN_TYPE_EMPTY
          /\ th'[t] # th[t])
            => /\ returned'.thread = t
               /\ returned'.op = "query"
               /\ returned'.val = 0 - ECONNREFUSED
               /\ returned'.frame.nsend = 0
               /\ returned'.frame.nrecv = 0
               /\ returned'.frame.nadd = 0
               /\ _server_mutex' # t
               /\ UNCHANGED <<statics, collab, lastAlloc, numAllocs,
                              in_flight>>]_vars

\* C13: a call with a name longer than SOCK_DODTLS_MAX_NAME_LEN returns
\* -ENOSPC without a cache lookup, a transport call or a cache insertion and
\* leaves the statics and the collaborators unchanged; such a call never
\* gets to the session check
C13_LongNameRejected ==
    [][\A t \in Threads :
         /\ (th[t].pc = "idle" /\ returned'.thread = t
             /\ returned'.op = "query"
             /\ DomainLen(returned'.frame.domain_name) > 112)
               => /\ returned'.val = 0 - ENOSPC
                  /\ returned'.frame.ncache = 0
                  /\ returned'.frame.nsend = 0
                  /\ returned'.frame.nrecv = 0
                  /\ returned'.frame.nadd = 0
                  /\ UNCHANGED <<statics, collab, lastAlloc, numAllocs,
                                 in_flight>>
         /\ (th[t].pc = "idle" /\ th'[t].pc = "q_server_set")
               => DomainLen(th'[t].domain_name) <= 112]_vars

\* a long name was rejected while a session was active
C13_Witness ==
    /\ returned.op = "query"
    /\ returned.val = 0 - ENOSPC
    /\ returned.frame.domain_name = LongName
    /\ _cred_type # CREDMAN_TYPE_EMPTY

\* C14: when a received reply is shorter than the minimum length or
\* dns_msg_parse_reply() rejects it, the step does not return: res becomes
\* -EBADMSG, the attempt is counted, and the call goes to the next send
\* unless this was the last retry; -EBADMSG is only returned by a call that
\* used up its retries
C14_MalformedReplyRetries ==
    /\ []((returned.op = "query" /\ returned.frame.pc = "q_out"
           /\ returned.val = 0 - EBADMSG)
             => returned.frame.i = CONFIG_SOCK_DODTLS_RETRIES)
    /\ [][\A t \in Threads :
            (/\ th[t].pc = "q_recv"
             /\ th'[t] # th[t]
             /\ _dns_buf'[3] = 129
             /\ \/ _dns_buf'[4] < 19
                \/ (th'[t].decoded /\ th'[t].res < 0))
               => /\ returned' = NoReturn
                  /\ th'[t].res = 0 - EBADMSG
                  /\ th'[t].i = th[t].i + 1
                  /\ th'[t].nadd = th[t].nadd
                  /\ th[t].i + 1 < CONFIG_SOCK_DODTLS_RETRIES
                        => th'[t].pc = "q_send"
                  /\ th[t].i + 1 >= CONFIG_SOCK_DODTLS_RETRIES
                        => th'[t].pc = "q_out"]_vars

\* after a reply that the decoder rejected the call is about to send again
C14_Witness ==
    \E t \in Threads :
        /\ th[t].pc = "q_send"
        /\ th[t].i = 1
        /\ th[t].decoded
        /\ th[t].res = 0 - EBADMSG

\* C16: every return leaves the mutex not held by the returning caller, and
\* the mutex is free whenever no operation is in progress
C16_LockReleasedOnReturn ==
    /\ returned.thread # 0 => _server_mutex # returned.thread
    /\ (\A t \in Threads : th[t].pc = "idle") => _server_mutex = 0

\* C18: a received reply of length L > 0 is handed to dns_msg_parse_reply()
\* if L >= sizeof(dns_hdr_t) + 7, and is not decoded and gives -EBADMSG if
\* L is below that
C18_MinimumLengthDecoded ==
    [][\A t \in Threads :
         (th[t].pc = "q_recv" /\ th'[t] # th[t] /\ _dns_buf'[3] = 129)
            => /\ _dns_buf'[4] >= DNS_HDR_LEN + 7 => th'[t].decoded
               /\ _dns_buf'[4] < DNS_HDR_LEN + 7
                     => (~th'[t].decoded /\ th'[t].res = 0 - EBADMSG)]_vars

\* C19: in an attempt whose send stayed within the timeout the receive
\* timeout (in microseconds) is the configured timeout minus the send
\* duration, and a sleep after a failed send lasts that remaining time, at
\* most CONFIG_SOCK_DODTLS_TIMEOUT_MS milliseconds
C19_RemainingBudget ==
    \A t \in Threads :
        th[t].pc = "q_recv"
           => LET remaining_ms ==
                      CONFIG_SOCK_DODTLS_TIMEOUT_MS - th[t].send_duration
              IN /\ th[t].timeout = remaining_ms * US_PER_MS
                 /\ th[t].slept \in {0, remaining_ms}
                 /\ th[t].slept <= CONFIG_SOCK_DODTLS_TIMEOUT_MS

\* C15: when the credential of a connect is already in the credential
\* store (credman_add() answers CREDMAN_EXIST), the step goes on to
\* sock_dtls_create() without a teardown and without returning; such a call
\* never returns the credential errors -ENOSPC or -EINVAL, and when it
\* returns 0 its credential is the recorded one
C15_CredentialExistsIsSuccess ==
    /\ []((returned.op = "connect" /\ returned.frame.exist)
             => /\ returned.val \notin {0 - ENOSPC, 0 - EINVAL}
                /\ returned.val = 0
                      => /\ _cred_type = returned.frame.creds.type
                         /\ _cred_tag = returned.frame.creds.tag)
    /\ [][\A t \in Threads :
            (th[t].pc = "c_cred" /\ th[t].creds \in credman
             /\ th'[t] # th[t])
               => /\ th'[t].pc = "c_dtls"
                  /\ returned' = NoReturn
                  /\ th[t].creds \in credman'
                  /\ UNCHANGED <<_udp_sock, _dtls_sock,
                                 _server_session>>]_vars

\* a connect whose credential was already registered returned success
C15_Witness ==
    /\ returned.op = "connect"
    /\ returned.frame.exist
    /\ returned.val = 0
    /\ _cred_type = returned.frame.creds.type

\* C17: sock_dodtls_query only sends and receives while a credential type
\* is recorded and the session is up: whenever a call is about to send or
\* to receive, _server_set holds, the socks are open and the session is
\* established
C17_SessionCheckAtomicWithLoop ==
    \A t \in Threads :
        th[t].pc \in {"q_send", "q_recv"}
           => /\ _cred_type # CREDMAN_TYPE_EMPTY
              /\ _udp_sock = "open"
              /\ _dtls_sock = "open"
              /\ _server_session = "established"

\* C20: every port computed for the bind lies in the dynamic port range
\* 49152..65535, and a bind result of -EADDRINUSE leads to another bind
\* attempt and is never returned
C20_PortInDynamicRange ==
    /\ [](returned.op = "connect" => returned.val # 0 - EADDRINUSE)
    /\ [][\A t \in Threads :
            (th[t].pc = "c_bind" /\ th'[t] # th[t])
               => /\ th'[t].local_port >= IANA_DYNAMIC_PORTRANGE_MIN
                  /\ th'[t].local_port <= IANA_DYNAMIC_PORTRANGE_MAX
                  /\ th'[t].res = 0 - EADDRINUSE
                        => th'[t].pc = "c_bind"]_vars
====
